---- MODULE Spec2Model ----
(***************************************************************************)
(* The per-session HTTP server of bch-mcp (src/server.ts).                 *)
(*                                                                         *)
(* One HTTP listener multiplexes MCP sessions.  The request callback is an *)
(* async function: it runs to its next `await`, other callbacks run in     *)
(* between.  Every action below is one such run-to-await segment.          *)
(*                                                                         *)
(*   sessions   the Map of line 10, as a list of entries in insertion      *)
(*              order (the order `for ... of sessions` visits them)        *)
(*   req        the request callbacks that are suspended at an await       *)
(*   out        the response written last                                  *)
(*                                                                         *)
(* The tools of src/index.ts are modelled next to it: serialize and the    *)
(* JSON text it goes through, the registry createServer builds, and one    *)
(* tool call from its dispatch to the return of its handler.               *)
(***************************************************************************)
EXTENDS Integers, Sequences, FiniteSets, TLC

VARIABLES
    sessions,     \* Map<string, {transport, server}>, insertion ordered
    nextUuid,     \* the next value crypto.randomUUID() returns
    nextObj,      \* allocation counter of createServer / new Transport
    req,          \* arrival number -> suspended request callback
    arrived,      \* number of requests the listener has accepted
    out,          \* the last response written
    announced,    \* session ids a response header has told a client
    initialized,  \* transports that accepted an initialize request
    closeCalls,   \* server instance -> number of close() invocations
    closedSrv,    \* server instances whose close() has resolved
    sig,          \* signal name -> state of its process.on handler
    listening,    \* httpServer accepts connections
    exited,       \* process.exit(0) has run
    created,      \* history: session id -> the pair stored by sessions.set
    tornDown,     \* history: ids whose teardown request has been answered
    routeSeq,     \* history: number of requests handed to a transport
    idle,         \* history: session id -> timer periods since last access
    waits,        \* library waits a wait_for_* handler has started
    refused,      \* history: session ids answered "unknown operation"
    obj,          \* the argument of a serialize(obj) call
    ser,          \* what that call returned
    tools,        \* server instance -> the registry createServer built
    call,         \* the tool call a McpServer is handling
    escrows       \* history: the escrow_create calls that have returned

\* the state of src/server.ts
serverVars == <<sessions, nextUuid, nextObj, req, arrived, out, announced,
                initialized, closeCalls, closedSrv, sig, listening, exited,
                created, tornDown, routeSeq, idle, waits, refused>>

\* the part of it the calls in progress make up
callVars == <<waits, refused>>

\* the state of src/index.ts
toolVars == <<obj, ser, tools, call, escrows>>

vars == <<serverVars, toolVars>>

----------------------------------------------------------------------------
(* Bounds *)

MaxReq == 3          \* requests accepted in one behaviour of Spec
MaxSessions == 2     \* initialize requests accepted in one behaviour
MaxShutdownReq == 2  \* requests accepted in one behaviour of SpecShutdown
MaxSweepReq == 2     \* requests accepted in one behaviour of SpecSweep
IdleTimeout == 2     \* configured idle timeout, in timer periods
MaxAdapterReq == 2   \* requests accepted in one behaviour of SpecAdapter
MaxLen == 2          \* elements of a list of strings and BigInts
MaxDepth == 2        \* containers nested in a value passed to serialize
MaxServers == 2      \* server instances createServer is run for
MaxUnknownReq == 3   \* requests accepted in one behaviour of SpecUnknown
MaxWaitReq == 3      \* requests accepted in one behaviour of SpecWait
MaxEscrowCalls == 2  \* escrow_create calls in one behaviour of SpecEscrow
MaxNonce == 2        \* values the contract library draws a nonce from

----------------------------------------------------------------------------
(* Values *)

\* req.headers["mcp-session-id"] when the header is absent (undefined)
NoToken == 0

\* a well-formed session id that crypto.randomUUID never returned
Forged == -1

NoObj == 0

Signals == {"SIGTERM", "SIGINT"}

\* pathname, split at "/"
McpPath == <<"mcp">>
HealthPath == <<"health">>

\* a request body: json is "bad" (not JSON), "null" (the JSON value null),
\* "array" (a JSON array) or "object" (a JSON-RPC message with the given
\* method and tool name)
\* The id member is the JSON text of jsonBody.id ("1" the number 1, "0" the
\* number zero, "\"\"" the empty string), "undefined" when the parsed value
\* has no such property.
Body(json, method, tool) ==
    [json |-> json, method |-> method, tool |-> tool,
     id |-> IF json = "object" THEN "1" ELSE "undefined"]

\* the message with another id member
WithId(body, id) == [body EXCEPT !.id = id]

NoBody == Body("bad", "", "")
NullBody == Body("null", "", "")
ArrayBody == Body("array", "", "")

InitializeBody == Body("object", "initialize", "")
ListToolsBody == Body("object", "tools/list", "")
PriceCallBody == Body("object", "tools/call", "get_bch_price")
WaitBalanceBody == Body("object", "tools/call", "wait_for_balance")
UnknownCallBody == Body("object", "tools/call", "no_such_tool")

Request(method, path, hdr, body) ==
    [method |-> method, path |-> path, hdr |-> hdr, body |-> body]

\* the id member of a JSON-RPC message: jsonBody.id
BodyId(body) == body.id

\* the values of an id member that `||` takes for false
Falsy == {"undefined", "null", "0", "\"\"", "false"}

\* the id member of the JSON-RPC error the callback itself writes: the
\* literal null of line 80, `jsonBody.id || null` of line 146; "none" for
\* a response the callback does not write as JSON-RPC
ResponseId(kind, body) ==
    IF kind = "parse_error" THEN "null"
    ELSE IF kind = "session_not_found"
        THEN IF BodyId(body) \in Falsy THEN "null" ELSE BodyId(body)
    ELSE "none"

NoOut == [req |-> 0, method |-> "", path |-> <<>>, hdr |-> NoToken,
          body |-> NoBody, late |-> FALSE, kind |-> "none", status |-> 0,
          code |-> 0, sid |-> NoToken, target |-> NoObj, seq |-> 0,
          rid |-> "none", handler |-> ""]

----------------------------------------------------------------------------
(* The session table: Map operations *)

Keys(s) == {s[i].id : i \in 1..Len(s)}

Has(s, id) == \E i \in 1..Len(s) : s[i].id = id

Get(s, id) == s[CHOOSE i \in 1..Len(s) : s[i].id = id]

MapSet(s, id, tr, srv) ==
    IF Has(s, id)
    THEN [i \in 1..Len(s) |->
             IF s[i].id = id THEN [id |-> id, transport |-> tr, server |-> srv]
             ELSE s[i]]
    ELSE Append(s, [id |-> id, transport |-> tr, server |-> srv])

MapDelete(s, id) == SelectSeq(s, LAMBDA e : e.id # id)

----------------------------------------------------------------------------
(* index.ts: the registry built by createServer *)

\* the names passed to server.registerTool, in the order of the calls
RegisterCalls ==
    <<"wallet_create", "wallet_from_id", "get_balance", "send", "send_max",
      "op_return_send", "get_history", "sign_message", "verify_message",
      "wait_for_transaction", "wait_for_balance", "get_testnet_satoshis",
      "token_genesis", "token_send", "token_mint", "token_burn",
      "get_token_balance", "get_nft_token_balance", "get_all_token_balances",
      "get_all_nft_token_balances", "get_token_utxos", "escrow_create",
      "convert_currency", "qr_address", "decode_transaction",
      "wallet_from_seed", "wallet_from_wif", "wallet_watch_only", "get_utxos",
      "get_max_amount_to_send", "get_raw_history", "get_block_height",
      "get_bch_price", "encode_transaction", "submit_transaction",
      "get_public_key", "get_deposit_address", "escrow_get_balance",
      "escrow_spend", "escrow_refund", "get_token_deposit_address",
      "return_testnet_satoshis", "validate_address">>

\* the second registerTool call given the name of the first
ToolNameAt_Pasted(i) == IF i = 2 THEN RegisterCalls[1] ELSE RegisterCalls[i]

\* the name of the i-th registerTool call
ToolNameAt(i) == RegisterCalls[i]

\* a registry: the registered names in order; threw when a registerTool
\* call found its name taken
NoRegistry == [built |-> FALSE, names |-> <<>>, threw |-> FALSE]

Names(reg) == {reg.names[i] : i \in 1..Len(reg.names)}

\* server.registerTool(name, config, handler)
RegisterTool(reg, name) ==
    IF reg.threw \/ name \in Names(reg) THEN [reg EXCEPT !.threw = TRUE]
    ELSE [reg EXCEPT !.names = Append(@, name)]

RECURSIVE RegisterAll(_)
RegisterAll(n) ==
    IF n = 0 THEN [NoRegistry EXCEPT !.built = TRUE]
    ELSE RegisterTool(RegisterAll(n - 1), ToolNameAt(n))

\* the registry of the server createServer returns
ServerTools == RegisterAll(Len(RegisterCalls))

\* the operations whose handler awaits a library event
WaitTools == {"wait_for_transaction", "wait_for_balance"}

\* the handler that busy-waits for the event instead of awaiting it
Yields_Busy(tool) == FALSE

\* the handler of a wait operation gives the event loop back at its
\* `await wallet.waitFor...`
Yields(tool) == TRUE

\* no handler is occupying the event loop
LoopFree == \A w \in waits : Yields(w.tool)

\* every name resolving to the handler of get_bch_price
Dispatch_Fallback(body) == [kind |-> "result", code |-> 0, handler |-> "get_bch_price"]

\* What the McpServer of a session does with a request other than
\* initialize: a tools/call naming a registered operation goes to that
\* operation's handler, one naming no registered operation is answered
\* with the JSON-RPC error -32602, any other method needs no handler.
Dispatch(body) ==
    IF body.method # "tools/call" THEN [kind |-> "result", code |-> 0, handler |-> ""]
    ELSE IF body.tool \in Names(ServerTools)
        THEN [kind |-> "result", code |-> 0, handler |-> body.tool]
    ELSE [kind |-> "unknown_tool", code |-> -32602, handler |-> ""]

----------------------------------------------------------------------------
(* Decisions of the request callback *)

Last(path) == path[Len(path)]

\* pathname.includes(a + "/" + b)
Includes(path, a, b) ==
    \E i \in 1..(Len(path) - 1) : path[i] = a /\ path[i + 1] = b

IsCallEndpoint(method, path) ==
    /\ path = McpPath \/ (Len(path) >= 1 /\ Last(path) = "mcp")
    /\ method = "POST"

\* a callback without the DELETE route
IsTeardown_Unrouted(method, path) == FALSE

IsTeardown(method, path) == path = McpPath /\ method = "DELETE"

\* JSON.parse(body) does not throw
Parses(body) == body.json # "bad"

\* reading jsonBody.method does not throw (it does on null)
HasMethodProperty(body) == body.json # "null"

IsInitialize(body) == body.method = "initialize"

\* the id drawn once instead of once per request
NewSessionId_Hoisted(hdr, uuid) == 1

\* the client's header reused as the id when it is present
NewSessionId_FromHeader(hdr, uuid) == IF hdr # NoToken THEN hdr ELSE uuid

\* const newSessionId = crypto.randomUUID()
NewSessionId(hdr, uuid) == uuid

\* sessionIdGenerator: () => newSessionId
GeneratorId(hdr, newId) == newId

\* headers: { ...req.headers, "mcp-session-id": newSessionId }
FakeReqSessionHeader(hdr, newId) == newId

\* one dispatcher shared by every session
CreateServer_Shared(n) == 1

\* createServer({ config }): a new dispatcher instance
CreateServer(n) == n

\* new StreamableHTTPServerTransport(...): a new transport instance
NewTransport(n) == n

\* sessionId && sessions.has(sessionId)
FindSession(s, sessionId) == sessionId # NoToken /\ Has(s, sessionId)

\* every request handed to the session stored first
SessionTransport_First(s, sessionId) == s[1].transport

\* sessions.get(sessionId)!.transport
SessionTransport(s, sessionId) == Get(s, sessionId).transport

\* sessions.get(sessionId)!.server
SessionServer(s, sessionId) == Get(s, sessionId).server

\* the delete left out
DeleteClosed_Kept(s, id) == s

\* sessions.delete(id) after the awaited close
DeleteClosed(s, id) == MapDelete(s, id)

\* the entry deleted before the close is awaited
TableDuringClose_Deleted(s, id) == MapDelete(s, id)

\* the table while `await session.server.close()` is pending: the entry
\* stays until the close has resolved
TableDuringClose(s, id) == s

\* the setInterval callback: it logs sessions.size and removes nothing
SweepSessions(s, idl) == s

\* a session created for a call that names an unknown session
Branch_CreateOnMiss(s, hdr, body) ==
    IF ~Parses(body) THEN "parse_error"
    ELSE IF ~HasMethodProperty(body) THEN "exception"
    ELSE IF IsInitialize(body) THEN "initialize"
    ELSE IF FindSession(s, hdr) THEN "session"
    ELSE IF hdr # NoToken THEN "initialize"
    ELSE "no_session"

\* a session created for a call that bears no session id
Branch_TokenlessCreates(s, hdr, body) ==
    IF ~Parses(body) THEN "parse_error"
    ELSE IF ~HasMethodProperty(body) THEN "exception"
    ELSE IF IsInitialize(body) \/ hdr = NoToken THEN "initialize"
    ELSE IF FindSession(s, hdr) THEN "session"
    ELSE "no_session"

\* a body without a method member taken for an initialize request
Branch_MethodlessCreates(s, hdr, body) ==
    IF ~Parses(body) THEN "parse_error"
    ELSE IF ~HasMethodProperty(body) THEN "exception"
    ELSE IF IsInitialize(body) \/ body.method = "" THEN "initialize"
    ELSE IF FindSession(s, hdr) THEN "session"
    ELSE "no_session"

\* an initialize request bearing a stored id handed to that session
Branch_ReuseStored(s, hdr, body) ==
    IF ~Parses(body) THEN "parse_error"
    ELSE IF ~HasMethodProperty(body) THEN "exception"
    ELSE IF FindSession(s, hdr) THEN "session"
    ELSE IF IsInitialize(body) THEN "initialize"
    ELSE "no_session"

\* the session lookup moved in front of the parse
Branch_LookupFirst(s, hdr, body) ==
    IF FindSession(s, hdr) THEN "session"
    ELSE IF ~Parses(body) THEN "parse_error"
    ELSE IF ~HasMethodProperty(body) THEN "exception"
    ELSE IF IsInitialize(body) THEN "initialize"
    ELSE "no_session"

\* the branch the call endpoint takes once the body is read (lines 75-141)
Branch(s, hdr, body) ==
    IF ~Parses(body) THEN "parse_error"
    ELSE IF ~HasMethodProperty(body) THEN "exception"
    ELSE IF IsInitialize(body) THEN "initialize"
    ELSE IF FindSession(s, hdr) THEN "session"
    ELSE "no_session"

\* the branch of lines 165-212 a request takes that is neither a call nor
\* a teardown: <<kind, status>>
StaticRoute(method, path) ==
    IF method = "GET" /\ Includes(path, ".well-known", "mcp.json")
        THEN <<"card", 200>>
    ELSE IF method = "GET" /\ Includes(path, ".well-known", "mcp-config")
        THEN <<"config", 200>>
    ELSE IF method = "GET" /\ Len(path) >= 1 /\ Last(path) = "health"
        THEN <<"health", 200>>
    ELSE IF method = "GET" /\ path = <<>>
        THEN <<"root", 200>>
    ELSE <<"not_found", 404>>

----------------------------------------------------------------------------
(* Request callbacks *)

\* a request callback suspended at an await; late records that the
\* teardown of its session id had been answered when it arrived
Suspended(q, pc) ==
    [method |-> q.method, path |-> q.path, hdr |-> q.hdr, body |-> q.body,
     late |-> q.hdr \in tornDown,
     pc |-> pc, newId |-> NoToken, genId |-> NoToken, fakeHdr |-> NoToken,
     srv |-> NoObj, tr |-> NoObj, target |-> NoObj, seq |-> 0]

Resp(r, q, late, kind, status, code, sid, target, seq) ==
    [req |-> r, method |-> q.method, path |-> q.path, hdr |-> q.hdr,
     body |-> q.body, late |-> late, kind |-> kind, status |-> status,
     code |-> code, sid |-> sid, target |-> target, seq |-> seq,
     rid |-> ResponseId(kind, q.body),
     handler |-> IF kind = "result" THEN Dispatch(q.body).handler ELSE ""]

Drop(f, r) == [x \in DOMAIN f \ {r} |-> f[x]]

\* the request is a call of a wait operation that a live, initialized
\* McpServer dispatches to its handler
NeedsWait(q) ==
    /\ q.body.method = "tools/call"
    /\ q.body.tool \in WaitTools
    /\ q.target \in initialized
    /\ q.srv \notin closedSrv

Put(f, r, v) == [x \in DOMAIN f \cup {r} |-> IF x = r THEN v ELSE f[x]]

\* initialize requests that will still draw a session id
PendingInits == {r \in DOMAIN req :
                    /\ req[r].pc = "reading"
                    /\ Branch(sessions, req[r].hdr, req[r].body) = "initialize"}

\* The request callback from its start to its first await (lines 42-73 and
\* 151-212): a call waits for the end of its body, a teardown of a stored
\* session waits for server.close(), every other request is answered.
Arrive(inputs, limit) ==
    /\ listening /\ ~exited
    /\ LoopFree
    /\ UNCHANGED <<toolVars, callVars>>
    /\ arrived < limit
    /\ \E q \in inputs :
        LET r == arrived + 1
            late == q.hdr \in tornDown
        IN
        /\ (IsCallEndpoint(q.method, q.path) /\ IsInitialize(q.body))
              => Cardinality(PendingInits) + nextUuid <= MaxSessions
        /\ q.hdr \in {NoToken, Forged} \cup announced
        /\ arrived' = r
        /\ IF q.method = "OPTIONS" THEN
              /\ out' = Resp(r, q, late, "preflight", 204, 0, NoToken, NoObj, 0)
              /\ UNCHANGED <<sessions, req, closeCalls, tornDown>>
           ELSE IF IsCallEndpoint(q.method, q.path) THEN
              /\ req' = Put(req, r, Suspended(q, "reading"))
              /\ UNCHANGED <<sessions, out, closeCalls, tornDown>>
           ELSE IF IsTeardown(q.method, q.path) THEN
              IF FindSession(sessions, q.hdr) THEN
                 LET srv == SessionServer(sessions, q.hdr) IN
                 /\ req' = Put(req, r, [Suspended(q, "closing") EXCEPT !.srv = srv])
                 /\ closeCalls' = [closeCalls EXCEPT ![srv] = @ + 1]
                 /\ sessions' = TableDuringClose(sessions, q.hdr)
                 /\ UNCHANGED <<out, tornDown>>
              ELSE
                 /\ out' = Resp(r, q, late, "teardown_ok", 200, 0, NoToken, NoObj, 0)
                 /\ tornDown' = IF q.hdr = NoToken THEN tornDown
                                ELSE tornDown \cup {q.hdr}
                 /\ UNCHANGED <<sessions, req, closeCalls>>
           ELSE
              LET rt == StaticRoute(q.method, q.path) IN
              /\ out' = Resp(r, q, late, rt[1], rt[2], 0, NoToken, NoObj, 0)
              /\ UNCHANGED <<sessions, req, closeCalls, tornDown>>
    /\ UNCHANGED <<nextUuid, nextObj, announced, initialized,
                   closedSrv, sig, listening, exited, created, routeSeq, idle>>

\* The call branch from the end of the body to its next await (lines
\* 75-149): parse error, initialize up to `await mcpServer.connect`,
\* a stored session up to `await transport.handleRequest`, or the
\* session-not-found answer.
BodyEnd(r) ==
    /\ ~exited
    /\ LoopFree
    /\ UNCHANGED <<toolVars, callVars>>
    /\ r \in DOMAIN req /\ req[r].pc = "reading"
    /\ LET q == req[r]
           branch == Branch(sessions, q.hdr, q.body)
       IN
       IF branch = "parse_error" THEN
          /\ out' = Resp(r, q, q.late, "parse_error", 400, -32700, NoToken, NoObj, 0)
          /\ req' = Drop(req, r)
          /\ UNCHANGED <<nextUuid, nextObj, closeCalls, routeSeq, idle>>
       ELSE IF branch = "exception" THEN
          \* TypeError at line 84: the callback's promise rejects and
          \* nothing is written to res
          /\ out' = Resp(r, q, q.late, "exception", 0, 0, NoToken, NoObj, 0)
          /\ req' = Drop(req, r)
          /\ UNCHANGED <<nextUuid, nextObj, closeCalls, routeSeq, idle>>
       ELSE IF branch = "initialize" THEN
          LET newId == NewSessionId(q.hdr, nextUuid)
              srv == CreateServer(nextObj)
              tr == NewTransport(nextObj)
          IN
          /\ nextUuid' = nextUuid + 1
          /\ nextObj' = nextObj + 1
          /\ closeCalls' = Put(closeCalls, srv, IF srv \in DOMAIN closeCalls
                                                   THEN closeCalls[srv] ELSE 0)
          /\ req' = [req EXCEPT ![r] =
                        [q EXCEPT !.pc = "connecting", !.newId = newId,
                                  !.genId = GeneratorId(q.hdr, newId),
                                  !.srv = srv, !.tr = tr]]
          /\ UNCHANGED <<out, routeSeq, idle>>
       ELSE IF branch = "session" THEN
          /\ routeSeq' = routeSeq + 1
          /\ req' = [req EXCEPT ![r] =
                        [q EXCEPT !.pc = "handling",
                                  !.target = SessionTransport(sessions, q.hdr),
                                  !.srv = SessionServer(sessions, q.hdr),
                                  !.seq = routeSeq + 1]]
          /\ idle' = [idle EXCEPT ![q.hdr] = 0]
          /\ UNCHANGED <<out, nextUuid, nextObj, closeCalls>>
       ELSE
          /\ out' = Resp(r, q, q.late, "session_not_found", 400, -32600,
                         NoToken, NoObj, 0)
          /\ req' = Drop(req, r)
          /\ UNCHANGED <<nextUuid, nextObj, closeCalls, routeSeq, idle>>
    /\ UNCHANGED <<sessions, arrived, announced, initialized, closedSrv, sig,
                   listening, exited, created, tornDown>>

\* The initialize branch after `await mcpServer.connect(transport)` (lines
\* 97-114): store the session, rebuild the request, hand it to the
\* transport.
ConnectDone(r) ==
    /\ ~exited
    /\ LoopFree
    /\ UNCHANGED <<toolVars, callVars>>
    /\ r \in DOMAIN req /\ req[r].pc = "connecting"
    /\ LET q == req[r] IN
       /\ sessions' = MapSet(sessions, q.newId, q.tr, q.srv)
       /\ created' = Put(created, q.newId, [transport |-> q.tr, server |-> q.srv])
       /\ idle' = Put(idle, q.newId, 0)
       /\ routeSeq' = routeSeq + 1
       /\ req' = [req EXCEPT ![r] =
                     [q EXCEPT !.pc = "handling", !.target = q.tr,
                               !.fakeHdr = FakeReqSessionHeader(q.hdr, q.newId),
                               !.seq = routeSeq + 1]]
    /\ UNCHANGED <<nextUuid, nextObj, arrived, out, announced, initialized,
                   closeCalls, closedSrv, sig, listening, exited, tornDown>>

\* The transport answers a request it was handed (the outcome of
\* transport.handleRequest, lines 114 and 137).  An initialize request is
\* accepted or rejected by the transport; an accepted one marks the
\* transport initialized and announces the generator's id in the
\* mcp-session-id response header.  Any other request is served when the
\* transport is initialized.  A transport whose server was closed has
\* ended its response streams.
TransportRespond(r) ==
    /\ ~exited
    /\ LoopFree
    /\ UNCHANGED <<toolVars, waits>>
    /\ r \in DOMAIN req
    /\ \/ req[r].pc = "handling" /\ ~NeedsWait(req[r])
       \/ req[r].pc = "settled"
       \/ req[r].pc = "waiting" /\ req[r].srv \in closedSrv
    /\ LET q == req[r]
           d == Dispatch(q.body)
       IN
       /\ req' = Drop(req, r)
       /\ IF q.srv \in closedSrv THEN
             /\ out' = Resp(r, q, q.late, "stream_ended", 0, 0, NoToken,
                            q.target, q.seq)
             /\ UNCHANGED <<initialized, announced, refused>>
          ELSE IF IsInitialize(q.body) THEN
             \E accepted \in BOOLEAN :
                IF accepted THEN
                   /\ initialized' = initialized \cup {q.target}
                   /\ announced' = announced \cup {q.genId}
                   /\ out' = Resp(r, q, q.late, "init_ok", 200, 0, q.genId,
                                  q.target, q.seq)
                   /\ UNCHANGED refused
                ELSE
                   /\ out' = Resp(r, q, q.late, "init_rejected", 400, -32600,
                                  NoToken, q.target, q.seq)
                   /\ UNCHANGED <<initialized, announced, refused>>
          ELSE IF q.target \notin initialized THEN
             /\ out' = Resp(r, q, q.late, "not_initialized", 400, -32000,
                            NoToken, q.target, q.seq)
             /\ UNCHANGED <<initialized, announced, refused>>
          ELSE
             /\ out' = Resp(r, q, q.late, d.kind, 200, d.code, NoToken,
                            q.target, q.seq)
             /\ refused' = IF d.kind = "unknown_tool"
                            THEN refused \cup {q.hdr} ELSE refused
             /\ UNCHANGED <<initialized, announced>>
    /\ UNCHANGED <<sessions, nextUuid, nextObj, arrived, closeCalls, closedSrv,
                   sig, listening, exited, created, tornDown, routeSeq, idle>>

\* The McpServer calls the handler of a wait_for_transaction or
\* wait_for_balance call, which runs to `await wallet.waitFor...` (index.ts
\* lines 1764 and 1789): the library holds a subscription until the awaited
\* event.
HandlerStart(r) ==
    /\ ~exited
    /\ LoopFree
    /\ r \in DOMAIN req /\ req[r].pc = "handling"
    /\ NeedsWait(req[r])
    /\ req' = [req EXCEPT ![r].pc = "waiting"]
    /\ waits' = waits \cup {[r |-> r, srv |-> req[r].srv, sid |-> req[r].hdr,
                              tool |-> req[r].body.tool]}
    /\ UNCHANGED <<sessions, nextUuid, nextObj, arrived, out, announced,
                   initialized, closeCalls, closedSrv, sig, listening, exited,
                   created, tornDown, routeSeq, idle, refused, toolVars>>

\* the awaited transaction or balance arrives: the library releases the
\* subscription and the handler of the call, if its request is still open,
\* returns
WaitSettles(w) ==
    /\ ~exited
    /\ w \in waits
    /\ waits' = waits \ {w}
    /\ req' = IF w.r \in DOMAIN req /\ req[w.r].pc = "waiting"
              THEN [req EXCEPT ![w.r].pc = "settled"] ELSE req
    /\ UNCHANGED <<sessions, nextUuid, nextObj, arrived, out, announced,
                   initialized, closeCalls, closedSrv, sig, listening, exited,
                   created, tornDown, routeSeq, idle, refused, toolVars>>

\* server.close() resolves: the promise a teardown or a shutdown loop
\* awaits (lines 156, 225, 237)
CloseResolved(srv) ==
    /\ ~exited
    /\ LoopFree
    /\ UNCHANGED <<toolVars, callVars>>
    /\ srv \in DOMAIN closeCalls
    /\ closeCalls[srv] > 0
    /\ srv \notin closedSrv
    /\ closedSrv' = closedSrv \cup {srv}
    /\ UNCHANGED <<sessions, nextUuid, nextObj, req, arrived, out, announced,
                   initialized, closeCalls, sig, listening, exited, created,
                   tornDown, routeSeq, idle>>

\* The teardown branch after `await session.server.close()` (lines
\* 157-162): remove the entry and answer.
TeardownDone(r) ==
    /\ ~exited
    /\ LoopFree
    /\ UNCHANGED <<toolVars, callVars>>
    /\ r \in DOMAIN req /\ req[r].pc = "closing"
    /\ req[r].srv \in closedSrv
    /\ LET q == req[r] IN
       /\ sessions' = DeleteClosed(sessions, q.hdr)
       /\ tornDown' = tornDown \cup {q.hdr}
       /\ out' = Resp(r, q, q.late, "teardown_ok", 200, 0, NoToken, NoObj, 0)
       /\ req' = Drop(req, r)
    /\ UNCHANGED <<nextUuid, nextObj, arrived, announced, initialized,
                   closeCalls, closedSrv, sig, listening, exited, created,
                   routeSeq, idle>>

----------------------------------------------------------------------------
(* Graceful shutdown: the SIGTERM and SIGINT handlers *)

SigIdle == [pc |-> "idle", id |-> NoToken, srv |-> NoObj]

\* One turn of `for (const [id, session] of sessions)` over table t: call
\* close() on the next entry and suspend, or leave the loop and call
\* httpServer.close().  Every entry the iterator has passed was deleted by
\* this handler, so the next entry is the first one left.
LoopTurn(s, t) ==
    IF t = <<>> THEN
       /\ sig' = [sig EXCEPT ![s] = [pc |-> "done", id |-> NoToken, srv |-> NoObj]]
       /\ listening' = FALSE
       /\ UNCHANGED closeCalls
    ELSE
       /\ sig' = [sig EXCEPT ![s] = [pc |-> "closing", id |-> Head(t).id,
                                     srv |-> Head(t).server]]
       /\ closeCalls' = [closeCalls EXCEPT ![Head(t).server] = @ + 1]
       /\ UNCHANGED listening

\* process.on(signal) fires: the handler runs to its first await
Signal(s) ==
    /\ ~exited
    /\ LoopFree
    /\ UNCHANGED <<toolVars, callVars>>
    /\ sig[s].pc = "idle"
    /\ LoopTurn(s, sessions)
    /\ UNCHANGED <<sessions, nextUuid, nextObj, req, arrived, out, announced,
                   initialized, closedSrv, exited, created, tornDown,
                   routeSeq, idle>>

\* after `await session.server.close()` in the loop: delete, next turn
ShutdownCloseDone(s) ==
    /\ ~exited
    /\ LoopFree
    /\ UNCHANGED <<toolVars, callVars>>
    /\ sig[s].pc = "closing"
    /\ sig[s].srv \in closedSrv
    /\ sessions' = DeleteClosed(sessions, sig[s].id)
    /\ LoopTurn(s, sessions')
    /\ UNCHANGED <<nextUuid, nextObj, req, arrived, out, announced,
                   initialized, closedSrv, exited, created, tornDown,
                   routeSeq, idle>>

\* the callback of httpServer.close(): every connection has ended
ProcessExit ==
    /\ ~exited
    /\ LoopFree
    /\ UNCHANGED <<toolVars, callVars>>
    /\ ~listening
    /\ DOMAIN req = {}
    /\ exited' = TRUE
    /\ UNCHANGED <<sessions, nextUuid, nextObj, req, arrived, out, announced,
                   initialized, closeCalls, closedSrv, sig, listening,
                   created, tornDown, routeSeq, idle>>

----------------------------------------------------------------------------
(* The periodic timer *)

Min(a, b) == IF a < b THEN a ELSE b

\* the setInterval callback of lines 216-219; idle counts, per stored
\* session, the timer periods since a request last bore its id
SweepTimer ==
    /\ ~exited
    /\ LoopFree
    /\ UNCHANGED <<toolVars, callVars>>
    /\ \E t \in Keys(sessions) : idle[t] <= IdleTimeout
    /\ sessions' = SweepSessions(sessions, idle)
    /\ idle' = [t \in DOMAIN idle |->
                   IF t \in Keys(sessions) THEN Min(idle[t] + 1, IdleTimeout + 1)
                   ELSE idle[t]]
    /\ UNCHANGED <<nextUuid, nextObj, req, arrived, out, announced,
                   initialized, closeCalls, closedSrv, sig, listening, exited,
                   created, tornDown, routeSeq>>

----------------------------------------------------------------------------
(* index.ts: JavaScript values, JSON text and serialize *)

\* A JavaScript value is a record tagged with its type.  A string is the
\* sequence of its characters, a property list keeps the keys in property
\* order.
Undefined == [t |-> "undefined"]
Null == [t |-> "null"]
Str(s) == [t |-> "string", s |-> s]
Big(n) == [t |-> "bigint", n |-> n]
Bool(b) == [t |-> "boolean", b |-> b]
List(items) == [t |-> "array", items |-> items]
Obj(keys, vals) == [t |-> "object", keys |-> keys, vals |-> vals]

\* a TypeError or SyntaxError thrown in place of a value
Thrown == [t |-> "throw"]

\* no call of serialize has returned yet
NotCalled == [t |-> "pending"]

Concat(seqs) ==
    LET RECURSIVE Cat(_)
        Cat(k) == IF k = 0 THEN <<>> ELSE Cat(k - 1) \o seqs[k]
    IN Cat(Len(seqs))

DigitChars == <<"0", "1", "2", "3", "4", "5", "6", "7", "8", "9">>

RECURSIVE Digits(_)
Digits(n) ==
    IF n < 10 THEN <<DigitChars[n + 1]>>
    ELSE Digits(n \div 10) \o <<DigitChars[(n % 10) + 1]>>

\* BigInt.prototype.toString(): the decimal digits, "-" in front of a
\* negative value
BigIntToString(n) == IF n < 0 THEN <<"-">> \o Digits(0 - n) ELSE Digits(n)

DigitValue(c) == CHOOSE d \in 0..9 : DigitChars[d + 1] = c

RECURSIVE DigitsValue(_)
DigitsValue(cs) ==
    IF Len(cs) = 0 THEN 0
    ELSE 10 * DigitsValue(SubSeq(cs, 1, Len(cs) - 1)) + DigitValue(cs[Len(cs)])

IsDigits(cs) ==
    /\ Len(cs) > 0
    /\ \A i \in 1..Len(cs) : \E d \in 1..10 : DigitChars[d] = cs[i]

\* BigInt(string) of a decimal string
ParseBigInt(cs) ==
    IF Len(cs) > 1 /\ cs[1] = "-" /\ IsDigits(Tail(cs))
        THEN Big(0 - DigitsValue(Tail(cs)))
    ELSE IF IsDigits(cs) THEN Big(DigitsValue(cs))
    ELSE Thrown

\* the replacer with the typeof test removed
Replacer_Identity(value) == value

\* the replacer of lines 21-23
Replacer(value) ==
    IF value.t = "bigint" THEN Str(BigIntToString(value.n)) ELSE value

\* the characters of a JSON string literal: QuoteJSONString
Quote(s) ==
    <<"\"">> \o Concat([i \in 1..Len(s) |->
                          IF s[i] \in {"\"", "\\"} THEN <<"\\", s[i]>>
                          ELSE <<s[i]>>])
             \o <<"\"">>

\* a[1] sep a[2] sep ... a[n]
Join(parts, sep) ==
    Concat([i \in 1..Len(parts) |->
               IF i = 1 THEN parts[i] ELSE sep \o parts[i]])

\* JSON.stringify(value, replacer), without indentation.  ok is FALSE when
\* a BigInt is left for the encoder (TypeError); u is TRUE when the result
\* is undefined instead of a text.  useReplacer tells whether the replacer
\* of serialize is passed.
RECURSIVE JsonStringify(_, _)
JsonStringify(value, useReplacer) ==
    LET v == IF useReplacer THEN Replacer(value) ELSE value
        null == <<"n", "u", "l", "l">>
        Text(x) == [ok |-> TRUE, u |-> FALSE, text |-> x]
        TypeError == [ok |-> FALSE, u |-> FALSE, text |-> <<>>]
    IN
    IF v.t = "string" THEN Text(Quote(v.s))
    ELSE IF v.t = "null" THEN Text(null)
    ELSE IF v.t = "boolean"
        THEN Text(IF v.b THEN <<"t", "r", "u", "e">> ELSE <<"f", "a", "l", "s", "e">>)
    ELSE IF v.t = "undefined" THEN [ok |-> TRUE, u |-> TRUE, text |-> <<>>]
    ELSE IF v.t = "array" THEN
        LET parts == [i \in 1..Len(v.items) |->
                         JsonStringify(v.items[i], useReplacer)]
        IN IF \E i \in 1..Len(parts) : ~parts[i].ok THEN TypeError
           ELSE Text(<<"[">>
                     \o Join([i \in 1..Len(parts) |->
                                 IF parts[i].u THEN null ELSE parts[i].text],
                             <<",">>)
                     \o <<"]">>)
    ELSE IF v.t = "object" THEN
        LET parts == [i \in 1..Len(v.vals) |->
                         JsonStringify(v.vals[i], useReplacer)]
            kept == SelectSeq([i \in 1..Len(parts) |-> i],
                              LAMBDA i : ~parts[i].u)
        IN IF \E i \in 1..Len(parts) : ~parts[i].ok THEN TypeError
           ELSE Text(<<"{">>
                     \o Join([j \in 1..Len(kept) |->
                                 Quote(v.keys[kept[j]]) \o <<":">>
                                 \o parts[kept[j]].text],
                             <<",">>)
                     \o <<"}">>)
    ELSE TypeError

NoParse == [ok |-> FALSE, v |-> Null, i |-> 0]

\* the string literal whose opening quote is before position i
RECURSIVE ScanString(_, _, _)
ScanString(text, i, acc) ==
    IF i > Len(text) THEN NoParse
    ELSE IF text[i] = "\"" THEN [ok |-> TRUE, v |-> Str(acc), i |-> i + 1]
    ELSE IF text[i] = "\\" THEN
        IF i + 1 <= Len(text) /\ text[i + 1] \in {"\"", "\\"}
        THEN ScanString(text, i + 2, Append(acc, text[i + 1]))
        ELSE NoParse
    ELSE ScanString(text, i + 1, Append(acc, text[i]))

\* the JSON value that starts at position i of text, and the position
\* after it
RECURSIVE ParseValue(_, _)
RECURSIVE ParseElements(_, _, _)
RECURSIVE ParseMembers(_, _, _, _)
ParseValue(text, i) ==
    IF i > Len(text) THEN NoParse
    ELSE IF text[i] = "\"" THEN ScanString(text, i + 1, <<>>)
    ELSE IF text[i] = "n" THEN
        IF i + 3 <= Len(text) /\ SubSeq(text, i, i + 3) = <<"n", "u", "l", "l">>
        THEN [ok |-> TRUE, v |-> Null, i |-> i + 4]
        ELSE NoParse
    ELSE IF text[i] = "t" THEN
        IF i + 3 <= Len(text) /\ SubSeq(text, i, i + 3) = <<"t", "r", "u", "e">>
        THEN [ok |-> TRUE, v |-> Bool(TRUE), i |-> i + 4]
        ELSE NoParse
    ELSE IF text[i] = "f" THEN
        IF i + 4 <= Len(text)
           /\ SubSeq(text, i, i + 4) = <<"f", "a", "l", "s", "e">>
        THEN [ok |-> TRUE, v |-> Bool(FALSE), i |-> i + 5]
        ELSE NoParse
    ELSE IF text[i] = "[" THEN
        IF i + 1 <= Len(text) /\ text[i + 1] = "]"
        THEN [ok |-> TRUE, v |-> List(<<>>), i |-> i + 2]
        ELSE ParseElements(text, i + 1, <<>>)
    ELSE IF text[i] = "{" THEN
        IF i + 1 <= Len(text) /\ text[i + 1] = "}"
        THEN [ok |-> TRUE, v |-> Obj(<<>>, <<>>), i |-> i + 2]
        ELSE ParseMembers(text, i + 1, <<>>, <<>>)
    ELSE NoParse

ParseElements(text, i, items) ==
    LET e == ParseValue(text, i) IN
    IF ~e.ok \/ e.i > Len(text) THEN NoParse
    ELSE IF text[e.i] = "," THEN ParseElements(text, e.i + 1, Append(items, e.v))
    ELSE IF text[e.i] = "]"
        THEN [ok |-> TRUE, v |-> List(Append(items, e.v)), i |-> e.i + 1]
    ELSE NoParse

\* a key read again overwrites the value at the key's first position
SetMember(keys, vals, k, v) ==
    IF \E j \in 1..Len(keys) : keys[j] = k
    THEN <<keys, [j \in 1..Len(vals) |-> IF keys[j] = k THEN v ELSE vals[j]]>>
    ELSE <<Append(keys, k), Append(vals, v)>>

ParseMembers(text, i, keys, vals) ==
    IF i > Len(text) \/ text[i] # "\"" THEN NoParse
    ELSE
    LET k == ScanString(text, i + 1, <<>>) IN
    IF ~k.ok \/ k.i > Len(text) \/ text[k.i] # ":" THEN NoParse
    ELSE
    LET e == ParseValue(text, k.i + 1) IN
    IF ~e.ok \/ e.i > Len(text) THEN NoParse
    ELSE
    LET kv == SetMember(keys, vals, k.v.s, e.v) IN
    IF text[e.i] = "," THEN ParseMembers(text, e.i + 1, kv[1], kv[2])
    ELSE IF text[e.i] = "}"
        THEN [ok |-> TRUE, v |-> Obj(kv[1], kv[2]), i |-> e.i + 1]
    ELSE NoParse

\* JSON.parse(text): the value when the whole text is one JSON value
JsonParse(text) ==
    LET p == ParseValue(text, 1) IN
    IF p.ok /\ p.i = Len(text) + 1 THEN p ELSE NoParse

\* serialize of lines 19-24
serialize(o) ==
    IF o.t \in {"null", "undefined"} THEN o
    ELSE LET s == JsonStringify(o, TRUE) IN
         IF ~s.ok \/ s.u THEN Thrown
         ELSE LET p == JsonParse(s.text) IN
              IF p.ok THEN p.v ELSE Thrown

\* one call of serialize
Serialize ==
    /\ ser = NotCalled
    /\ ser' = serialize(obj)
    /\ UNCHANGED <<obj, tools, call, escrows, serverVars>>

----------------------------------------------------------------------------
(* index.ts: a tool call *)

\* handlers whose text is JSON.stringify(serialize(result), null, 2)
SerializedTools ==
    {"send", "send_max", "op_return_send", "get_history",
     "wait_for_transaction", "wait_for_balance", "token_genesis",
     "token_send", "token_mint", "token_burn", "get_all_token_balances",
     "get_all_nft_token_balances", "get_token_utxos", "decode_transaction",
     "get_utxos", "get_max_amount_to_send", "get_raw_history", "escrow_spend",
     "escrow_refund", "return_testnet_satoshis"}

\* handlers whose text is result.toString()
ToStringTools == {"get_token_balance", "get_nft_token_balance", "convert_currency"}

\* handlers whose text is a template string around the result
TemplateTools == {"get_testnet_satoshis"}

\* how a handler turns the library's value into the text of its content:
\* every other handler passes an object literal that holds library values
\* to JSON.stringify directly
Encoding(tool) ==
    IF tool \in SerializedTools THEN "serialized"
    ELSE IF tool \in ToStringTools THEN "tostring"
    ELSE IF tool \in TemplateTools THEN "template"
    ELSE IF tool = "get_balance" THEN "raw_if_object"
    ELSE "raw"

\* handlers that wrap the library call in try/catch
CatchingTools == {"validate_address"}

\* an argument the caller left out
Absent == "(absent)"

Args(walletId, unit) == [walletId |-> walletId, unit |-> unit]

\* z.enum(["bch", "sat", "usd"]) of the get_balance input shape
Units == {"bch", "sat", "usd"}

\* the parse with every argument let through
ParseArgs_Unchecked(tool, args) == [ok |-> TRUE, paths |-> {}, args |-> args]

\* inputSchema.safeParse(args) before the handler is called.  The shape of
\* get_balance is z.object({walletId: z.string(), unit: z.enum(...)
\* .default("bch")}); the calls of every other operation are drawn with
\* arguments of the declared shape.
\* paths names the fields the issues of a failed parse point at.
ParseArgs(tool, args) ==
    IF tool # "get_balance" THEN [ok |-> TRUE, paths |-> {}, args |-> args]
    ELSE LET issues == (IF args.walletId = Absent THEN {"walletId"} ELSE {})
                       \cup (IF args.unit \notin Units \cup {Absent}
                             THEN {"unit"} ELSE {})
         IN IF issues # {} THEN [ok |-> FALSE, paths |-> issues, args |-> args]
            ELSE [ok |-> TRUE, paths |-> {},
                  args |-> IF args.unit = Absent
                           THEN [args EXCEPT !.unit = "bch"] ELSE args]

\* what the delegated library call of a handler does: resolves to a value,
\* throws (rejects) with a message, or - the faucet - replies with an
\* object that has an error member
Value(v) == [kind |-> "value", v |-> v, msg |-> <<>>]
Throws(msg) == [kind |-> "throw", v |-> Null, msg |-> msg]
ErrorReply(msg) == [kind |-> "error_reply", v |-> Null, msg |-> msg]
NoOutcome == [kind |-> "none", v |-> Null, msg |-> <<>>]

\* String(value), as a template string computes it
RECURSIVE ToText(_)
ToText(v) ==
    IF v.t = "bigint" THEN BigIntToString(v.n)
    ELSE IF v.t = "string" THEN v.s
    ELSE IF v.t = "array"
        THEN Join([i \in 1..Len(v.items) |->
                      IF v.items[i].t \in {"null", "undefined"} THEN <<>>
                      ELSE ToText(v.items[i])], <<",">>)
    ELSE IF v.t = "object" THEN <<"[object Object]">>
    ELSE IF v.t = "boolean" THEN <<IF v.b THEN "true" ELSE "false">>
    ELSE <<v.t>>

\* the object literal a handler without serialize hands to JSON.stringify
Embed(tool, v) ==
    IF tool = "escrow_get_balance"
    THEN Obj(<< <<"balance">>, <<"address">> >>, <<v, Str(<<"bchtest:p">>)>>)
    ELSE Obj(<< <<"result">> >>, <<v>>)

\* a handler's return: content text, or an exception leaving the handler
Content(text) == [kind |-> "content", isError |-> FALSE, paths |-> {}, text |-> text]
HandlerThrew(msg) == [kind |-> "threw", isError |-> FALSE, paths |-> {}, text |-> msg]
NoResult == [kind |-> "none", isError |-> FALSE, paths |-> {}, text |-> <<>>]

TypeErrorMessage == <<"Do not know how to serialize a BigInt">>

\* JSON.stringify(value, null, 2) inside a handler
Stringified(value) ==
    LET s == JsonStringify(value, FALSE) IN
    IF s.ok /\ ~s.u THEN Content(s.text) ELSE HandlerThrew(TypeErrorMessage)

\* the handler of a tool, from the settling of its library call on
Handler(tool, args, outcome) ==
    IF outcome.kind = "throw" THEN
        IF tool \in CatchingTools
        THEN Stringified(Obj(<< <<"valid">>, <<"error">> >>,
                             <<Bool(FALSE), Str(outcome.msg)>>))
        ELSE HandlerThrew(outcome.msg)
    ELSE IF outcome.kind = "error_reply" THEN
        Content(<<"Faucet error: ">> \o outcome.msg)
    ELSE IF Encoding(tool) = "serialized" THEN
        LET x == serialize(outcome.v) IN
        IF x = Thrown THEN HandlerThrew(TypeErrorMessage) ELSE Stringified(x)
    ELSE IF Encoding(tool) = "raw" THEN Stringified(Embed(tool, outcome.v))
    ELSE IF Encoding(tool) = "raw_if_object" THEN
        IF outcome.v.t \in {"object", "array", "null"} THEN Stringified(outcome.v)
        ELSE Content(ToText(outcome.v) \o <<" ", args.unit>>)
    ELSE IF Encoding(tool) = "tostring" THEN
        IF outcome.v.t \in {"null", "undefined"}
        THEN HandlerThrew(<<"Cannot read properties of null">>)
        ELSE Content(ToText(outcome.v))
    ELSE Content(<<"Success! Transaction ID: ">> \o ToText(outcome.v))

\* McpServer turns an exception of the handler into a result flagged
\* isError that carries the message
ToolResult(h) ==
    IF h.kind = "threw"
    THEN [kind |-> "tool_error", isError |-> TRUE, paths |-> {}, text |-> h.text]
    ELSE h

NoCall == [pc |-> "idle", srv |-> NoObj, tool |-> "", args |-> Args(Absent, Absent),
           parsed |-> Args(Absent, Absent), invoked |-> 0,
           outcome |-> NoOutcome, result |-> NoResult]

\* createServer() runs for server instance srv
CreateServerRun(srv) ==
    /\ ~tools[srv].built
    /\ tools' = [tools EXCEPT ![srv] = ServerTools]
    /\ UNCHANGED <<call, obj, ser, escrows, serverVars>>

\* A tools/call request reaches the McpServer of instance srv: the tool is
\* looked up by name, the arguments are parsed against its input shape,
\* and the handler is called and runs to the await of its library call.
CallTool(srv, tool, args) ==
    /\ tools[srv].built /\ ~tools[srv].threw
    /\ call.pc \in {"idle", "done"}
    /\ LET c == [NoCall EXCEPT !.srv = srv, !.tool = tool, !.args = args]
           p == ParseArgs(tool, args)
       IN
       IF tool \notin Names(tools[srv]) THEN
          call' = [c EXCEPT !.pc = "done",
                            !.result = [kind |-> "unknown_tool", isError |-> TRUE,
                                        paths |-> {}, text |-> <<"Tool not found">>]]
       ELSE IF ~p.ok THEN
          call' = [c EXCEPT !.pc = "done",
                            !.result = [kind |-> "invalid_params", isError |-> TRUE,
                                        paths |-> p.paths,
                                        text |-> <<"Invalid arguments">>]]
       ELSE
          call' = [c EXCEPT !.pc = "awaiting", !.parsed = p.args, !.invoked = 1]
    /\ UNCHANGED <<tools, obj, ser, escrows, serverVars>>

\* the library call the handler awaits settles and the handler returns
LibrarySettles(outcome) ==
    /\ call.pc = "awaiting"
    /\ outcome.kind = "error_reply" => call.tool = "get_testnet_satoshis"
    /\ call' = [call EXCEPT !.pc = "done", !.outcome = outcome,
                            !.result = ToolResult(Handler(call.tool, call.parsed,
                                                          outcome))]
    /\ UNCHANGED <<tools, obj, ser, escrows, serverVars>>

----------------------------------------------------------------------------
(* index.ts: escrow_create *)

\* the arguments of an escrow_create call, after the input shape
EscrowArgs(arbiterAddr, buyerAddr, sellerAddr, amount, network) ==
    [arbiterAddr |-> arbiterAddr, buyerAddr |-> buyerAddr,
     sellerAddr |-> sellerAddr, amount |-> amount, network |-> network]

\* no nonce member in the object handed to the constructor
NoNonce == 0

\* The object literal of lines 2118-2123: the three addresses and
\* BigInt(amount).  The network argument is not used and no nonce is
\* passed.
ContractArgs(a) ==
    [arbiterAddr |-> a.arbiterAddr, buyerAddr |-> a.buyerAddr,
     sellerAddr |-> a.sellerAddr, amount |-> ParseBigInt(a.amount),
     nonce |-> NoNonce]

\* new EscrowContract(args): the contract library uses the nonce it is
\* given and draws one at random when it is given none
EscrowContract(c, random) ==
    [c EXCEPT !.nonce = IF c.nonce = NoNonce THEN random ELSE c.nonce]

\* escrow.getDepositAddress(): the address of the script the contract's
\* parameters, the nonce among them, are compiled into; different
\* parameters give different addresses
GetDepositAddress(e) ==
    <<"p2sh", e.sellerAddr, e.buyerAddr, e.arbiterAddr, e.amount.n, e.nonce>>

\* escrow.toString(): the serialized contract
ContractId(e) ==
    <<"escrowContract", e.sellerAddr, e.buyerAddr, e.arbiterAddr, e.amount.n,
      e.nonce>>

\* The escrow_create handler (lines 2117-2132), called in the session of
\* server instance srv; random is the value the library's random source
\* returns next.
EscrowCreate(srv, a, random) ==
    /\ tools[srv].built /\ ~tools[srv].threw
    /\ Len(escrows) < MaxEscrowCalls
    /\ LET e == EscrowContract(ContractArgs(a), random) IN
       escrows' = Append(escrows, [srv |-> srv, args |-> a,
                                   address |-> GetDepositAddress(e),
                                   contractId |-> ContractId(e)])
    /\ UNCHANGED <<tools, call, obj, ser, serverVars>>

----------------------------------------------------------------------------
(* Specifications *)

Tokens == {NoToken, Forged} \cup 1..MaxSessions

\* the requests of MCP clients: calls, teardowns and the health probe
SessionInputs ==
    {Request("POST", McpPath, h, b) :
        h \in Tokens, b \in {InitializeBody, ListToolsBody, PriceCallBody}}
    \cup {Request("DELETE", McpPath, h, NoBody) : h \in Tokens}
    \cup {Request("GET", HealthPath, NoToken, NoBody)}

InitServer ==
    /\ sessions = <<>>
    /\ nextUuid = 1
    /\ nextObj = 1
    /\ req = <<>>
    /\ arrived = 0
    /\ out = NoOut
    /\ announced = {}
    /\ initialized = {}
    /\ closeCalls = <<>>
    /\ closedSrv = {}
    /\ sig = [s \in Signals |-> SigIdle]
    /\ listening = TRUE
    /\ exited = FALSE
    /\ created = <<>>
    /\ tornDown = {}
    /\ routeSeq = 0
    /\ idle = <<>>
    /\ waits = {}
    /\ refused = {}

InitTools ==
    /\ tools = [srv \in 1..MaxServers |-> NoRegistry]
    /\ call = NoCall
    /\ escrows = <<>>

Init ==
    /\ InitServer
    /\ InitTools
    /\ obj = Undefined
    /\ ser = NotCalled

\* the request callbacks of the HTTP listener
Receive == Arrive(SessionInputs, MaxReq)

Next ==
    \/ Receive
    \/ \E r \in DOMAIN req : BodyEnd(r)
    \/ \E r \in DOMAIN req : ConnectDone(r)
    \/ \E r \in DOMAIN req : TransportRespond(r)
    \/ \E srv \in DOMAIN closeCalls : CloseResolved(srv)
    \/ \E r \in DOMAIN req : TeardownDone(r)

Spec == Init /\ [][Next]_vars

\* the listener together with the SIGTERM and SIGINT handlers
ReceiveShutdown == Arrive(SessionInputs, MaxShutdownReq)

NextShutdown ==
    \/ ReceiveShutdown
    \/ \E r \in DOMAIN req : BodyEnd(r)
    \/ \E r \in DOMAIN req : ConnectDone(r)
    \/ \E r \in DOMAIN req : TransportRespond(r)
    \/ \E srv \in DOMAIN closeCalls : CloseResolved(srv)
    \/ \E r \in DOMAIN req : TeardownDone(r)
    \/ \E s \in Signals : Signal(s)
    \/ \E s \in Signals : ShutdownCloseDone(s)
    \/ ProcessExit

SpecShutdown == Init /\ [][NextShutdown]_vars

\* the listener together with the periodic timer
ReceiveSweep == Arrive(SessionInputs, MaxSweepReq)

NextSweep ==
    \/ ReceiveSweep
    \/ \E r \in DOMAIN req : BodyEnd(r)
    \/ \E r \in DOMAIN req : ConnectDone(r)
    \/ \E r \in DOMAIN req : TransportRespond(r)
    \/ \E srv \in DOMAIN closeCalls : CloseResolved(srv)
    \/ \E r \in DOMAIN req : TeardownDone(r)
    \/ SweepTimer

SpecSweep == Init /\ [][NextSweep]_vars

\* property names
KeyA == <<"a">>
KeyB == <<"b">>

\* clients that hold a session or none
ClientTokens == {NoToken} \cup 1..MaxSessions

\* clients that call a registered and an unregistered operation
UnknownInputs ==
    {Request("POST", McpPath, h, b) :
        h \in ClientTokens, b \in {InitializeBody, UnknownCallBody, PriceCallBody}}
    \cup {Request("DELETE", McpPath, h, NoBody) : h \in 1..MaxSessions}

ReceiveUnknown == Arrive(UnknownInputs, MaxUnknownReq)

NextUnknown ==
    \/ ReceiveUnknown
    \/ \E r \in DOMAIN req : BodyEnd(r)
    \/ \E r \in DOMAIN req : ConnectDone(r)
    \/ \E r \in DOMAIN req : TransportRespond(r)
    \/ \E srv \in DOMAIN closeCalls : CloseResolved(srv)
    \/ \E r \in DOMAIN req : TeardownDone(r)

SpecUnknown == Init /\ [][NextUnknown]_vars

\* clients that call wait_for_balance, next to other calls, teardowns and
\* the health probe
WaitInputs ==
    {Request("POST", McpPath, h, b) :
        h \in ClientTokens, b \in {InitializeBody, WaitBalanceBody, PriceCallBody}}
    \cup {Request("DELETE", McpPath, h, NoBody) : h \in 1..MaxSessions}
    \cup {Request("GET", HealthPath, NoToken, NoBody)}

ReceiveWait == Arrive(WaitInputs, MaxWaitReq)

NextWait ==
    \/ ReceiveWait
    \/ \E r \in DOMAIN req : BodyEnd(r)
    \/ \E r \in DOMAIN req : ConnectDone(r)
    \/ \E r \in DOMAIN req : HandlerStart(r)
    \/ \E w \in waits : WaitSettles(w)
    \/ \E r \in DOMAIN req : TransportRespond(r)
    \/ \E srv \in DOMAIN closeCalls : CloseResolved(srv)
    \/ \E r \in DOMAIN req : TeardownDone(r)

SpecWait == Init /\ [][NextWait]_vars

\* The event loop runs every callback that is ready: the end of a body,
\* the promises of connect, handleRequest and close.  Nothing makes a
\* client send a request or the awaited balance arrive.
SpecWaitFair ==
    /\ SpecWait
    /\ WF_vars(\E r \in DOMAIN req : BodyEnd(r))
    /\ WF_vars(\E r \in DOMAIN req : ConnectDone(r))
    /\ WF_vars(\E r \in DOMAIN req : HandlerStart(r))
    /\ WF_vars(\E r \in DOMAIN req : TransportRespond(r))
    /\ WF_vars(\E srv \in DOMAIN closeCalls : CloseResolved(srv))
    /\ WF_vars(\E r \in DOMAIN req : TeardownDone(r))

\* the strings and BigInts a library result is built from: a string of
\* digits, a string the encoder has to escape, zero, a negative value and
\* the largest value below 2^31
Atoms ==
    {Str(<<"a">>), Str(<<"4", "2">>), Str(<<"\"", "\\">>)}
    \cup {Big(0), Big(-15), Big(2147483647)}

\* lists of at most n atoms
RECURSIVE AtomLists(_)
AtomLists(n) ==
    IF n = 0 THEN {<<>>}
    ELSE LET S == AtomLists(n - 1) IN
         S \cup {Append(l, a) : l \in {x \in S : Len(x) = n - 1}, a \in Atoms}

\* lists and objects of atoms
Flat ==
    {List(l) : l \in AtomLists(MaxLen)}
    \cup {Obj(<<KeyA>>, <<v>>) : v \in Atoms}
    \cup {Obj(k, <<v, w>>) : k \in {<<KeyA, KeyB>>, <<KeyB, KeyA>>},
                             v \in Atoms, w \in Atoms}

\* values of at most d nested containers
RECURSIVE Nested(_)
Nested(d) ==
    IF d <= 1 THEN Atoms \cup Flat
    ELSE LET V == Nested(d - 1) IN
         V \cup {List(<<v>>) : v \in V} \cup {Obj(<<KeyA>>, <<v>>) : v \in V}

SerializeInputs == Nested(MaxDepth) \cup {Null, Undefined}

InitSerialize ==
    /\ InitServer
    /\ InitTools
    /\ obj \in SerializeInputs
    /\ ser = NotCalled

NextSerialize == Serialize

SpecSerialize == InitSerialize /\ [][NextSerialize]_vars

\* values a delegated library call resolves to
LibraryValues ==
    {Null, Str(<<"a">>), Big(-15), List(<<Big(0), Str(<<"4", "2">>)>>),
     Obj(<<KeyA>>, <<Str(<<"a">>)>>),
     Obj(<<KeyA, KeyB>>, <<List(<<Big(2147483647)>>), Str(<<"a">>)>>)}

FailureMessage == <<"insufficient funds">>

Outcomes ==
    {Value(v) : v \in LibraryValues}
    \cup {Throws(FailureMessage), ErrorReply(FailureMessage)}

\* the tools/call requests of a client: every registered operation and an
\* unregistered one with arguments of the declared shape, get_balance
\* also with a missing walletId and with each unit, a unit outside the enum
\* and no unit
CallInputs ==
    {<<t, Args("w", Absent)>> : t \in Names(ServerTools) \cup {"no_such_tool"}}
    \cup {<<"get_balance", Args(w, u)>> :
             w \in {"w", Absent}, u \in Units \cup {"eur", Absent}}

NextTools ==
    \/ \E srv \in 1..MaxServers : CreateServerRun(srv)
    \/ \E srv \in 1..MaxServers : \E c \in CallInputs : CallTool(srv, c[1], c[2])
    \/ \E o \in Outcomes : LibrarySettles(o)

SpecTools == Init /\ [][NextTools]_vars

\* escrow_create calls: two assignments of the parties, two amounts, two
\* networks
EscrowInputs ==
    {EscrowArgs(p[1], p[2], p[3], m, n) :
        p \in {<<"addrA", "addrB", "addrS">>, <<"addrA", "addrS", "addrB">>},
        m \in {<<"1", "0">>, <<"2", "5">>},
        n \in {"mainnet", "testnet"}}

\* every session has its server
InitEscrow ==
    /\ InitServer
    /\ tools = [srv \in 1..MaxServers |-> ServerTools]
    /\ call = NoCall
    /\ escrows = <<>>
    /\ obj = Undefined
    /\ ser = NotCalled

NextEscrow ==
    \E srv \in 1..MaxServers : \E a \in EscrowInputs : \E random \in 1..MaxNonce :
       EscrowCreate(srv, a, random)

SpecEscrow == InitEscrow /\ [][NextEscrow]_vars

\* every route of the request callback: the call endpoint under /mcp and
\* under a longer path, with each kind of body, the teardown, the preflight,
\* the metadata endpoints and requests no route matches
AdapterInputs ==
    {Request("POST", McpPath, h, b) :
        h \in Tokens,
        b \in {NoBody, NullBody, ArrayBody, InitializeBody, PriceCallBody}}
    \cup {Request("POST", <<"api", "mcp">>, NoToken, b) :
             b \in {NoBody, InitializeBody}}
    \cup {Request("DELETE", McpPath, h, NoBody) : h \in Tokens}
    \cup {Request("DELETE", <<"api", "mcp">>, NoToken, NoBody)}
    \cup {Request("GET", p, NoToken, NoBody) :
             p \in {<<>>, McpPath, HealthPath, <<".well-known", "mcp.json">>,
                    <<".well-known", "mcp-config">>}}
    \cup {Request(m, McpPath, NoToken, NoBody) : m \in {"OPTIONS", "PUT"}}

ReceiveAdapter == Arrive(AdapterInputs, MaxAdapterReq)

NextAdapter ==
    \/ ReceiveAdapter
    \/ \E r \in DOMAIN req : BodyEnd(r)
    \/ \E r \in DOMAIN req : ConnectDone(r)
    \/ \E r \in DOMAIN req : TransportRespond(r)
    \/ \E srv \in DOMAIN closeCalls : CloseResolved(srv)
    \/ \E r \in DOMAIN req : TeardownDone(r)

SpecAdapter == Init /\ [][NextAdapter]_vars

----------------------------------------------------------------------------
(* Properties of the session table *)

\* a call: a parsed JSON-RPC message other than initialize
IsCall(body) == Parses(body) /\ HasMethodProperty(body) /\ ~IsInitialize(body)

\* request r leaves the await of its body in this step
BodyEnds(r) ==
    /\ r \in DOMAIN req /\ req[r].pc = "reading"
    /\ r \notin DOMAIN req' \/ req'[r].pc # "reading"

\* C1: a session id that is stored keeps its (transport, dispatcher) pair in
\* every step that leaves it in the table, and the table never holds two
\* entries under one id.
C1_PairStable ==
    [][/\ \A i \in 1..Len(sessions) :
             Has(sessions', sessions[i].id)
                => Get(sessions', sessions[i].id) = sessions[i]
       /\ \A i, j \in 1..Len(sessions') :
             sessions'[i].id = sessions'[j].id => i = j]_vars

\* two sessions are stored and an initialize request bearing the first
\* one's id has been handed to its own, new transport
C1_Witness ==
    /\ Len(sessions) = 2
    /\ \E r \in DOMAIN req :
          /\ req[r].hdr = sessions[1].id
          /\ IsInitialize(req[r].body)
          /\ req[r].pc = "handling"
          /\ req[r].target = sessions[2].transport
    /\ sessions[1] = [id |-> sessions[1].id,
                      transport |-> created[sessions[1].id].transport,
                      server |-> created[sessions[1].id].server]

\* C2: a call whose session header is absent or names no stored session is
\* answered 400 with JSON-RPC error -32600 in the step that ends its body:
\* it is handed to no transport, no session id is drawn and the table is
\* left as it was.
C2_UnknownSessionRejected ==
    [][\A r \in DOMAIN req :
          (/\ BodyEnds(r)
           /\ IsCall(req[r].body)
           /\ req[r].hdr = NoToken \/ ~Has(sessions, req[r].hdr))
          => /\ r \notin DOMAIN req'
             /\ out'.req = r
             /\ out'.status = 400 /\ out'.code = -32600
             /\ out'.kind = "session_not_found"
             /\ out'.target = NoObj
             /\ sessions' = sessions
             /\ nextUuid' = nextUuid /\ nextObj' = nextObj]_vars

\* a call bearing a never-issued id was rejected while a session is stored
C2_Witness ==
    /\ out.kind = "session_not_found"
    /\ out.hdr = Forged
    /\ IsCall(out.body)
    /\ Len(sessions) >= 1

\* C3: every call that is handed to a transport is handed to the transport
\* that was stored with the session id it bears when that session was
\* created, and is answered by it.
C3_RoutedToBoundTransport ==
    /\ \A r \in DOMAIN req :
          (req[r].pc = "handling" /\ IsCall(req[r].body))
             => /\ req[r].hdr \in DOMAIN created
                /\ req[r].target = created[req[r].hdr].transport
    /\ (out.target # NoObj /\ IsCall(out.body))
          => /\ out.hdr \in DOMAIN created
             /\ out.target = created[out.hdr].transport

\* after a handshake, a list-tools request was served by the session's
\* transport and a following get_bch_price call is with the same transport
C3_Witness ==
    /\ out.kind = "result"
    /\ out.body = ListToolsBody
    /\ Len(sessions) = 1
    /\ out.hdr = sessions[1].id
    /\ out.target = sessions[1].transport
    /\ \E r \in DOMAIN req :
          /\ req[r].body = PriceCallBody
          /\ req[r].hdr = out.hdr
          /\ req[r].pc = "handling"
          /\ req[r].target = out.target

\* C4: the id of a new session is the value drawn from crypto.randomUUID,
\* never the client's header: it is the key the session is stored under,
\* the value the transport's generator returns and announces, and the
\* mcp-session-id header of the request handed to the transport.
C4_ServerMintedIds ==
    /\ \A r \in DOMAIN req :
          req[r].pc \in {"connecting", "handling"} /\ IsInitialize(req[r].body)
             => /\ req[r].newId \in 1..(nextUuid - 1)
                /\ req[r].newId # req[r].hdr
                /\ req[r].genId = req[r].newId
                /\ req[r].pc = "handling"
                      => /\ req[r].fakeHdr = req[r].newId
                         /\ req[r].newId \in DOMAIN created
                         /\ created[req[r].newId].transport = req[r].tr
    /\ \A i \in 1..Len(sessions) :
          /\ sessions[i].id \in 1..(nextUuid - 1)
          /\ created[sessions[i].id].transport = sessions[i].transport
    /\ out.kind = "init_ok"
          => /\ out.sid # out.hdr
             /\ out.sid \in DOMAIN created
             /\ created[out.sid].transport = out.target
    /\ announced \subseteq DOMAIN created

\* an initialize request that bore an id of its own choice was answered
\* with a different, server-drawn id
C4_Witness ==
    /\ out.kind = "init_ok"
    /\ out.hdr = Forged
    /\ out.sid \in Keys(sessions)
    /\ \E r \in DOMAIN req :
          /\ IsInitialize(req[r].body)
          /\ req[r].hdr = out.sid
          /\ req[r].pc = "handling"

\* C5: an entry leaves the session table only after close() was invoked on
\* its dispatcher and that close has resolved, in the teardown branch and
\* in the shutdown loops alike.
C5_CloseBeforeRemove ==
    [][\A i \in 1..Len(sessions) :
          ~Has(sessions', sessions[i].id)
             => /\ closeCalls[sessions[i].server] >= 1
                /\ sessions[i].server \in closedSrv]_vars

\* a teardown and a shutdown loop both closed the session's dispatcher,
\* the entry is gone, the teardown is answered and the loop has ended
C5_Witness ==
    /\ out.kind = "teardown_ok"
    /\ out.hdr \in DOMAIN created
    /\ ~Has(sessions, out.hdr)
    /\ created[out.hdr].server \in closedSrv
    /\ closeCalls[created[out.hdr].server] = 2
    /\ \E s \in Signals : sig[s].pc = "done"

\* C6: once the teardown of an id has been answered the id is stored no
\* more, and a call that arrives afterwards bearing it is handed to no
\* transport and answered with the session-not-found error.
C6_ClosedForGood ==
    /\ \A t \in tornDown : ~Has(sessions, t)
    /\ \A r \in DOMAIN req :
          (req[r].late /\ IsCall(req[r].body)) => req[r].pc = "reading"
    /\ (out.late /\ IsCall(out.body) /\ IsCallEndpoint(out.method, out.path))
          => /\ out.kind = "session_not_found"
             /\ out.status = 400 /\ out.code = -32600
             /\ out.target = NoObj

\* a call bearing the id of a session that was created and torn down is
\* rejected
C6_Witness ==
    /\ out.late
    /\ IsCall(out.body)
    /\ out.kind = "session_not_found"
    /\ out.hdr \in DOMAIN created
    /\ out.hdr \in tornDown

\* C7: after the periodic timer has run, no session is stored that has been
\* idle for more than IdleTimeout timer periods, and a call bearing the id
\* of a session idle for that long gets the session-not-found error.
C7_IdleSessionSwept ==
    [][/\ \A t \in Keys(sessions') : idle'[t] <= IdleTimeout
       /\ \A r \in DOMAIN req :
             (/\ BodyEnds(r)
              /\ IsCall(req[r].body)
              /\ req[r].hdr \in DOMAIN idle
              /\ idle[req[r].hdr] > IdleTimeout)
             => out'.kind = "session_not_found" /\ out'.req = r]_vars

\* C8: no two stored sessions share an id, a transport or a dispatcher, and
\* no two initialize requests share the id, the transport or the
\* dispatcher made for them; an initialize request that was handed to its
\* transport has its own entry.
C8_NoSharedDispatcher ==
    /\ \A i, j \in 1..Len(sessions) :
          i # j => /\ sessions[i].id # sessions[j].id
                   /\ sessions[i].transport # sessions[j].transport
                   /\ sessions[i].server # sessions[j].server
    /\ \A r1, r2 \in DOMAIN req :
          (/\ r1 # r2
           /\ req[r1].newId # NoToken
           /\ req[r2].newId # NoToken)
          => /\ req[r1].newId # req[r2].newId
             /\ req[r1].tr # req[r2].tr
             /\ req[r1].srv # req[r2].srv
    /\ \A r \in DOMAIN req :
          (req[r].pc = "handling" /\ IsInitialize(req[r].body))
             => created[req[r].newId] =
                   [transport |-> req[r].tr, server |-> req[r].srv]
    /\ \A t1, t2 \in DOMAIN created :
          t1 # t2 => /\ created[t1].transport # created[t2].transport
                     /\ created[t1].server # created[t2].server

\* two initialize requests whose processing overlapped are both with their
\* transports and two sessions are stored
C8_Witness ==
    /\ Len(sessions) = 2
    /\ \E r1, r2 \in DOMAIN req :
          /\ r1 < r2
          /\ IsInitialize(req[r1].body) /\ IsInitialize(req[r2].body)
          /\ req[r1].pc = "handling" /\ req[r2].pc = "handling"
          /\ req[r2].seq < req[r1].seq

\* C9: within a session results are returned in the order the calls were
\* received: no call is answered while a call of the same session that
\* arrived and was handed to the transport before it is unanswered.
C9_AnsweredInOrder ==
    (out.kind = "result" /\ IsCall(out.body))
       => ~\E r \in DOMAIN req :
              /\ req[r].pc = "handling"
              /\ IsCall(req[r].body)
              /\ req[r].hdr = out.hdr
              /\ req[r].target = out.target
              /\ r < out.req
              /\ req[r].seq < out.seq

\* C10 as claimed: a get_bch_price call that bears no session id is
\* answered with a new session id and a success result.
C10_TokenlessCallServed ==
    (/\ IsCallEndpoint(out.method, out.path)
     /\ out.body = PriceCallBody
     /\ out.hdr = NoToken)
    => out.kind = "result" /\ out.sid # NoToken

\* C10: a get_bch_price call that bears no session id is answered 400 with
\* the session-not-found error and no session id; it is handed to no
\* transport, and no session id is drawn for a get_bch_price call.
C10_TokenlessCallRejected ==
    /\ (/\ IsCallEndpoint(out.method, out.path)
        /\ out.body = PriceCallBody
        /\ out.hdr = NoToken)
       => /\ out.kind = "session_not_found"
          /\ out.status = 400 /\ out.code = -32600
          /\ out.sid = NoToken
          /\ out.target = NoObj
    /\ \A r \in DOMAIN req :
          req[r].body = PriceCallBody
             => /\ req[r].newId = NoToken
                /\ req[r].hdr = NoToken => req[r].pc = "reading"

\* a get_bch_price call without session id was rejected, no session exists
C10_Witness ==
    /\ IsCallEndpoint(out.method, out.path)
    /\ out.body = PriceCallBody
    /\ out.hdr = NoToken
    /\ out.kind = "session_not_found"
    /\ sessions = <<>>
    /\ nextUuid = 1

----------------------------------------------------------------------------
(* Properties of the request callback *)

\* C11: every request the listener accepted is answered with a response;
\* no request callback ends in an exception that leaves the request without
\* one (stated for every method, path, header and body of AdapterInputs).
C11_NoEscapingException == out.kind # "exception"

\* C12: when the body of a POST to the call endpoint is not parseable JSON,
\* the step that ends the body read answers 400 with JSON-RPC error -32700
\* and hands the request to no transport; it leaves the session table, the
\* id counter and the allocation counter as they were, whether or not the
\* request bears the id of a stored session.
C12_ParseErrorBeforeLookup ==
    [][\A r \in DOMAIN req :
          (BodyEnds(r) /\ ~Parses(req[r].body)) =>
             /\ r \notin DOMAIN req'
             /\ out'.req = r
             /\ out'.kind = "parse_error"
             /\ out'.status = 400
             /\ out'.code = -32700
             /\ out'.rid = "null"
             /\ out'.target = NoObj
             /\ sessions' = sessions
             /\ nextUuid' = nextUuid
             /\ nextObj' = nextObj
             /\ routeSeq' = routeSeq]_vars

\* an unparseable body bearing the id of a stored, initialized session was
\* answered with the parse error
C12_Witness ==
    /\ out.kind = "parse_error"
    /\ out.hdr \in Keys(sessions)
    /\ SessionTransport(sessions, out.hdr) \in initialized

----------------------------------------------------------------------------
(* Properties of serialize *)

\* the value with each BigInt replaced by the string of its decimal digits
RECURSIVE DecimalStrings(_)
DecimalStrings(v) ==
    IF v.t = "bigint" THEN Str(BigIntToString(v.n))
    ELSE IF v.t = "array"
        THEN List([i \in 1..Len(v.items) |-> DecimalStrings(v.items[i])])
    ELSE IF v.t = "object"
        THEN Obj(v.keys, [i \in 1..Len(v.vals) |-> DecimalStrings(v.vals[i])])
    ELSE v

\* the BigInts that occur in a value
RECURSIVE BigIntsOf(_)
BigIntsOf(v) ==
    IF v.t = "bigint" THEN {v.n}
    ELSE IF v.t = "array"
        THEN UNION {BigIntsOf(v.items[i]) : i \in 1..Len(v.items)}
    ELSE IF v.t = "object"
        THEN UNION {BigIntsOf(v.vals[i]) : i \in 1..Len(v.vals)}
    ELSE {}

\* C14: serialize returns null and undefined unchanged; of a value built
\* from objects, lists, strings and BigInts it returns the same structure
\* with the same keys and the list elements in the same order, each
\* BigInt n replaced by the decimal string of n; and reading that string
\* as a BigInt gives n again.
C14_RoundTrip ==
    ser.t # "pending" =>
       /\ obj.t \in {"null", "undefined"} => ser = obj
       /\ obj.t \notin {"null", "undefined"} => ser = DecimalStrings(obj)
       /\ \A n \in BigIntsOf(obj) : ParseBigInt(BigIntToString(n)) = Big(n)

\* serialize returned for an object that holds a list of a negative BigInt
\* and a string that needs escaping
C14_Witness ==
    /\ obj = Obj(<<KeyA>>, <<List(<<Big(-15), Str(<<"\"", "\\">>)>>)>>)
    /\ ser = Obj(<<KeyA>>, <<List(<<Str(<<"-", "1", "5">>), Str(<<"\"", "\\">>)>>)>>)

----------------------------------------------------------------------------
(* Properties of the registry and of a tool call *)

\* the text a handler that JSON-encodes the value v would produce with
\* every BigInt of v written as its decimal string
EncodedText(tool, v) ==
    IF Encoding(tool) = "raw"
    THEN JsonStringify(DecimalStrings(Embed(tool, v)), FALSE).text
    ELSE JsonStringify(DecimalStrings(v), FALSE).text

\* C13: for every registered operation, when the library call resolves to
\* a value that holds a BigInt at some depth, the call ends in a content
\* result - the JSON encoding does not fail - and, where the handler
\* JSON-encodes the value, the text holds each BigInt as its decimal
\* string.
C13_BigIntsEncoded ==
    (/\ call.pc = "done"
     /\ call.outcome.kind = "value"
     /\ BigIntsOf(call.outcome.v) # {}) =>
        /\ call.result.kind = "content"
        /\ (\/ Encoding(call.tool) \in {"serialized", "raw"}
            \/ Encoding(call.tool) = "raw_if_object" /\ call.outcome.v.t # "bigint")
              => call.result.text = EncodedText(call.tool, call.outcome.v)

\* C15: a get_balance call whose unit is outside bch, sat, usd ends in a
\* validation error that names the field unit, with the handler never
\* invoked and no library call made; a get_balance call that omits unit
\* (and passes walletId) invokes the handler once, with unit bch.
C15_ValidatedBeforeHandler ==
    (call.pc # "idle" /\ call.tool = "get_balance") =>
       /\ call.args.unit \notin Units \cup {Absent} =>
            /\ call.pc = "done"
            /\ call.result.kind = "invalid_params"
            /\ "unit" \in call.result.paths
            /\ call.invoked = 0
            /\ call.outcome = NoOutcome
       /\ (call.args.unit = Absent /\ call.args.walletId # Absent) =>
            /\ call.invoked = 1
            /\ call.parsed.unit = "bch"
       /\ call.invoked = 1 => call.parsed.unit \in Units

\* a get_balance call with unit eur was answered with the validation error
C15_Witness ==
    /\ call.pc = "done"
    /\ call.tool = "get_balance"
    /\ call.args = Args("w", "eur")
    /\ call.result.kind = "invalid_params"

\* C16: when the library call behind a tool call throws, or the faucet
\* replies with an error, the call ends in a result flagged isError whose
\* text is the underlying message, and the handler was invoked once.
C16_FailureIsStructuredError ==
    (call.pc = "done" /\ call.outcome.kind \in {"throw", "error_reply"}) =>
       /\ call.result.kind = "tool_error"
       /\ call.result.isError
       /\ call.result.text = call.outcome.msg
       /\ call.invoked = 1

\* C20: a registry createServer has built holds every name of the
\* registerTool calls once - no call found its name taken, and a name
\* stands at one position only - and the registries of any two server
\* instances hold the same names.
C20_NamesUnique ==
    \A a \in DOMAIN tools :
       tools[a].built =>
          /\ ~tools[a].threw
          /\ Len(tools[a].names) = Len(RegisterCalls)
          /\ \A i, j \in 1..Len(tools[a].names) :
                tools[a].names[i] = tools[a].names[j] => i = j
          /\ \A b \in DOMAIN tools :
                tools[b].built => Names(tools[b]) = Names(tools[a])

\* two server instances hold a registry and a call of the last registered
\* operation was dispatched to its handler
C20_Witness ==
    /\ \A a \in DOMAIN tools : tools[a].built
    /\ call.pc = "done"
    /\ call.tool = "validate_address"
    /\ call.srv = MaxServers
    /\ call.invoked = 1

----------------------------------------------------------------------------
(* Properties of calls in a session *)

\* the transport answers request r in this step
Answers(r) ==
    /\ r \in DOMAIN req /\ req[r].pc = "handling"
    /\ r \notin DOMAIN req'

\* request r is a tools/call handed to a live, initialized session
LiveCall(r) ==
    /\ req[r].body.method = "tools/call"
    /\ req[r].target \in initialized
    /\ req[r].srv \notin closedSrv

\* C17: when a live session answers a call that names an operation
\* createServer did not register, the answer is the unknown-operation
\* error in a normal response (HTTP 200, JSON-RPC -32602), no handler is
\* invoked, and the step leaves the session table, the close counts, the
\* closed servers and the initialized transports as they were; a later
\* call of a registered operation in a session that was answered so is
\* dispatched to that operation's handler.
C17_UnknownOperationRefused ==
    [][\A r \in DOMAIN req :
          (Answers(r) /\ LiveCall(r)) =>
             /\ req[r].body.tool \notin Names(ServerTools) =>
                  /\ out'.req = r
                  /\ out'.kind = "unknown_tool"
                  /\ out'.status = 200
                  /\ out'.code = -32602
                  /\ out'.handler = ""
                  /\ sessions' = sessions
                  /\ closeCalls' = closeCalls
                  /\ closedSrv' = closedSrv
                  /\ initialized' = initialized
             /\ (req[r].body.tool \in Names(ServerTools) /\ req[r].hdr \in refused) =>
                  /\ out'.kind = "result"
                  /\ out'.status = 200
                  /\ out'.handler = req[r].body.tool]_vars

\* a session that was answered the unknown-operation error is still stored
\* and its later get_bch_price call was served
C17_Witness ==
    /\ out.kind = "result"
    /\ out.handler = "get_bch_price"
    /\ out.hdr \in refused
    /\ out.hdr \in Keys(sessions)

\* C18: no library wait started by a call of a session is pending once
\* the close of that session's server has resolved.
C18_NoWaitAfterClose == \A w \in waits : w.srv \notin closedSrv

----------------------------------------------------------------------------
(* Properties of escrow_create *)

\* C21: two escrow_create calls that were given the same arbiter, buyer
\* and seller address and the same amount returned the same deposit
\* address and the same contract id, whatever their session, their order
\* and their network argument.
C21_EscrowDeterministic ==
    \A i, j \in 1..Len(escrows) :
       (/\ escrows[i].args.arbiterAddr = escrows[j].args.arbiterAddr
        /\ escrows[i].args.buyerAddr = escrows[j].args.buyerAddr
        /\ escrows[i].args.sellerAddr = escrows[j].args.sellerAddr
        /\ ParseBigInt(escrows[i].args.amount) = ParseBigInt(escrows[j].args.amount))
          => /\ escrows[i].address = escrows[j].address
             /\ escrows[i].contractId = escrows[j].contractId

----------------------------------------------------------------------------
(* Further properties of the session table *)

\* request r leaves `await mcpServer.connect(transport)` in this step
Connects(r) ==
    /\ r \in DOMAIN req /\ req[r].pc = "connecting"
    /\ r \in DOMAIN req' /\ req'[r].pc = "handling"

\* C22: an initialize request is never turned away or handed to an
\* existing session, whatever mcp-session-id it carries: the end of its
\* body mints an id that is in no table entry and was never minted before,
\* and the end of its connect appends exactly one entry under that id and
\* leaves every earlier entry, and every server's close state, as it was.
C22_InitializeAddsOneEntry ==
    [][\A r \in DOMAIN req :
          /\ (BodyEnds(r) /\ Parses(req[r].body) /\ IsInitialize(req[r].body)) =>
                /\ r \in DOMAIN req'
                /\ req'[r].pc = "connecting"
                /\ req'[r].newId \notin Keys(sessions) \cup DOMAIN created
                /\ \A x \in DOMAIN req : req[x].pc = "connecting"
                                            => req[x].newId # req'[r].newId
                /\ sessions' = sessions
          /\ Connects(r) =>
                /\ Len(sessions') = Len(sessions) + 1
                /\ SubSeq(sessions', 1, Len(sessions)) = sessions
                /\ sessions'[Len(sessions')].id = req[r].newId
                /\ req[r].newId \notin Keys(sessions)
                /\ closeCalls' = closeCalls
                /\ closedSrv' = closedSrv]_vars

\* an initialize request that carried the id of the first session was
\* answered with a second id, and both sessions are in the table
C22_Witness ==
    /\ out.kind = "init_ok"
    /\ IsInitialize(out.body)
    /\ out.hdr = 1
    /\ out.sid = 2
    /\ Len(sessions) = 2
    /\ sessions[1].id = 1
    /\ sessions[2].id = 2

\* the call branch hands request r to a stored session's transport in
\* this step
Routes(r) ==
    /\ BodyEnds(r)
    /\ r \in DOMAIN req' /\ req'[r].pc = "handling"

\* C23: the call branch hands no request to the transport of a session
\* whose server has had close() called on it.
C23_NoRouteOnceClosing ==
    [][\A r \in DOMAIN req :
          Routes(r) => closeCalls[req'[r].srv] = 0]_vars

\* C24: close() is invoked at most once on the server of each session,
\* under every interleaving of teardown requests and shutdown signals.
C24_ClosedAtMostOnce ==
    \A srv \in DOMAIN closeCalls : closeCalls[srv] <= 1

\* C25: in the step in which a signal handler leaves its loop and calls
\* httpServer.close, the session table is empty and close() has resolved
\* on every server createServer has returned, the server of an initialize
\* request that is still awaiting connect included.
C25_ShutdownComplete ==
    [][\A s \in Signals :
          (sig[s].pc # "done" /\ sig'[s].pc = "done") =>
             /\ sessions' = <<>>
             /\ \A srv \in DOMAIN closeCalls' : srv \in closedSrv']_vars

\* request r leaves `await session.server.close()` of the teardown branch
\* in this step
TeardownEnds(r) ==
    /\ r \in DOMAIN req /\ req[r].pc = "closing"
    /\ r \notin DOMAIN req'

\* C26: a step of the request callback changes the session table only
\* when it is the connect of an initialize POST on the call endpoint
\* ending, which appends one entry, or the close awaited by a DELETE /mcp
\* that named a stored id ending, which removes the entry of that id; every
\* other step of every request leaves the table as it was.
C26_OnlyInitializeAndTeardown ==
    [][sessions' # sessions =>
          \E r \in DOMAIN req :
             \/ /\ Connects(r)
                /\ IsCallEndpoint(req[r].method, req[r].path)
                /\ IsInitialize(req[r].body)
                /\ Len(sessions') = Len(sessions) + 1
                /\ SubSeq(sessions', 1, Len(sessions)) = sessions
             \/ /\ TeardownEnds(r)
                /\ IsTeardown(req[r].method, req[r].path)
                /\ Has(sessions, req[r].hdr)
                /\ sessions' = MapDelete(sessions, req[r].hdr)]_vars

\* a session was created by an initialize request and removed by the
\* DELETE that named it
C26_Witness ==
    /\ out.kind = "teardown_ok"
    /\ out.hdr \in DOMAIN created
    /\ sessions = <<>>
    /\ arrived = 2

\* C27: when the transport has rejected an initialize request, the table
\* holds no entry for the transport that request created, so every entry
\* belongs to a session whose handshake succeeded.
C27_RejectedLeavesNoEntry ==
    (out.kind = "init_rejected" /\ IsInitialize(out.body)) =>
        \A i \in 1..Len(sessions) : sessions[i].transport # out.target

----------------------------------------------------------------------------
(* Sessions created under a longer path *)

MaxPathReq == 3

\* a path that ends in /mcp without being /mcp
NestedMcpPath == <<"api", "mcp">>

\* clients of a deployment that serves the endpoint under /api/mcp: they
\* initialize there, and send their teardown there or to /mcp
PathInputs ==
    {Request("POST", NestedMcpPath, NoToken, InitializeBody)}
    \cup {Request("DELETE", p, h, NoBody) :
             p \in {McpPath, NestedMcpPath}, h \in 1..MaxSessions}

ReceivePath == Arrive(PathInputs, MaxPathReq)

NextPath ==
    \/ ReceivePath
    \/ \E r \in DOMAIN req : BodyEnd(r)
    \/ \E r \in DOMAIN req : ConnectDone(r)
    \/ \E r \in DOMAIN req : TransportRespond(r)
    \/ \E srv \in DOMAIN closeCalls : CloseResolved(srv)
    \/ \E r \in DOMAIN req : TeardownDone(r)

SpecPath == Init /\ [][NextPath]_vars

\* C28: a DELETE on a path that the POST route accepts as call endpoint,
\* bearing the announced id of a session that was created on that path and
\* not yet torn down, is answered by the teardown: the session's
\* dispatcher is closed and its entry is removed.  (Every session of
\* SpecPath is created on /api/mcp.)
C28_TeardownOnCreationPath ==
    (/\ out.method = "DELETE"
     /\ out.path = NestedMcpPath
     /\ IsCallEndpoint("POST", out.path)
     /\ out.hdr \in announced
     /\ ~out.late)
        => /\ out.kind = "teardown_ok"
           /\ ~Has(sessions, out.hdr)
           /\ created[out.hdr].server \in closedSrv

\* C29: a DELETE /mcp that arrives bearing no session id, or an id the
\* table does not hold, is answered at once with 200 and status ok; no
\* dispatcher is closed and the table is left as it was.  A DELETE /mcp is
\* suspended only when its id is stored.  So the teardown of an id that was
\* torn down before gets the answer of the first teardown and leaves the
\* table the first teardown left.
C29_TeardownIdempotent ==
    [][arrived' = arrived + 1 =>
          LET r == arrived' IN
          /\ (/\ r \in DOMAIN req'
              /\ req'[r].method = "DELETE" /\ req'[r].path = McpPath)
                 => Has(sessions, req'[r].hdr)
          /\ (/\ r \notin DOMAIN req'
              /\ out'.req = r
              /\ out'.method = "DELETE" /\ out'.path = McpPath)
                 => /\ ~Has(sessions, out'.hdr)
                    /\ out'.kind = "teardown_ok" /\ out'.status = 200
                    /\ sessions' = sessions
                    /\ closeCalls' = closeCalls
                    /\ closedSrv' = closedSrv]_vars

\* the teardown of a session was repeated after it had been answered: the
\* second one is answered ok, the dispatcher was closed once
C29_Witness ==
    /\ out.kind = "teardown_ok" /\ out.status = 200
    /\ out.method = "DELETE" /\ out.path = McpPath
    /\ out.late
    /\ out.hdr \in DOMAIN created
    /\ ~Has(sessions, out.hdr)
    /\ closeCalls[created[out.hdr].server] = 1

----------------------------------------------------------------------------
(* Correlation ids of refused calls *)

MaxIdReq == 2

\* the id members a JSON-RPC request may carry: none, null, numbers and
\* strings, among them the number zero and the empty string
RequestIds == {"undefined", "null", "0", "1", "\"\"", "\"a\""}

\* calls that bear no session id or an id the table does not hold
IdInputs ==
    {Request("POST", McpPath, h, WithId(b, id)) :
        h \in {NoToken, Forged}, b \in {ListToolsBody, PriceCallBody},
        id \in RequestIds}

ReceiveId == Arrive(IdInputs, MaxIdReq)

NextId ==
    \/ ReceiveId
    \/ \E r \in DOMAIN req : BodyEnd(r)

SpecId == Init /\ [][NextId]_vars

\* C30: the session-not-found error carries the id member of the request
\* it answers, whatever value that is, and null when the request has no id
\* member.
C30_ErrorEchoesId ==
    out.kind = "session_not_found" =>
        out.rid = IF BodyId(out.body) = "undefined" THEN "null"
                  ELSE BodyId(out.body)

====
